---- MODULE Spec2Model ----
(***************************************************************************)
(* Model of src/Vibrational_Analysis.py: the beam-vibration pipeline       *)
(* (crop_signal, find_crossings, calc_frequency, calc_youngs_modulus) and  *)
(* the aggregation loop of main.                                           *)
(*                                                                         *)
(* Numbers.  Samples and times are integers.  Every other quantity         *)
(* (fractions, frequencies, moduli, averages) is an exact decimal-scaled   *)
(* rational  n/d * 2^p2 * 5^p5  kept in a canonical form (d > 0, n and d   *)
(* coprime to each other and to 10), so that equal values are equal        *)
(* records.  Floating-point rounding error is not modelled.                *)
(***************************************************************************)
EXTENDS Integers, Sequences, FiniteSets

\* ------------------------------------------------------------------ bounds
\* Longest (time, signal) pair given to a function called on its own.
MaxLen == 4
\* Longest trace (number of samples) a file holds.
MaxTraceLen == 3
\* Largest sample magnitude given to crop_signal called on its own.
MaxAmp == 2
\* Largest crossing count and period given to calc_frequency called on its own.
MaxCross == 5
MaxPeriod == 4

\* --------------------------------------------------------------- arithmetic
Abs(x) == IF x < 0 THEN -x ELSE x

Min(a, b) == IF a <= b THEN a ELSE b

RECURSIVE GCD(_, _)
GCD(a, b) == IF b = 0 THEN a ELSE GCD(b, a % b)

RECURSIVE Pow(_, _)
Pow(x, k) == IF k <= 0 THEN 1 ELSE x * Pow(x, k - 1)

Zero == [n |-> 0, d |-> 1, p2 |-> 0, p5 |-> 0]

\* The canonical form of n/d * 2^p2 * 5^p5 (d > 0): n and d coprime to each
\* other and to 10.
RECURSIVE Norm(_, _, _, _)
Norm(n, d, p2, p5) ==
    IF n = 0 THEN Zero
    ELSE IF n % 2 = 0 THEN Norm(n \div 2, d, p2 + 1, p5)
    ELSE IF n % 5 = 0 THEN Norm(n \div 5, d, p2, p5 + 1)
    ELSE IF d % 2 = 0 THEN Norm(n, d \div 2, p2 - 1, p5)
    ELSE IF d % 5 = 0 THEN Norm(n, d \div 5, p2, p5 - 1)
    ELSE LET g == GCD(Abs(n), d)
         IN  [n |-> n \div g, d |-> d \div g, p2 |-> p2, p5 |-> p5]

Num(i) == Norm(i, 1, 0, 0)

Rat(n, d) == Norm(n, d, 0, 0)

\* a * b, the common factors cancelled before the products are formed
RMul(x, y) ==
    LET g1 == GCD(Abs(x.n), y.d)
        g2 == GCD(Abs(y.n), x.d)
    IN  Norm((x.n \div g1) * (y.n \div g2), (x.d \div g2) * (y.d \div g1),
             x.p2 + y.p2, x.p5 + y.p5)

\* 1 / y for y # 0
RInv(y) ==
    IF y.n > 0 THEN [n |-> y.d, d |-> y.n, p2 |-> 0 - y.p2, p5 |-> 0 - y.p5]
    ELSE [n |-> 0 - y.d, d |-> 0 - y.n, p2 |-> 0 - y.p2, p5 |-> 0 - y.p5]

\* x / y for y # 0
RDiv(x, y) == RMul(x, RInv(y))

RAdd(x, y) ==
    LET m2 == Min(x.p2, y.p2)
        m5 == Min(x.p5, y.p5)
        l  == (x.d \div GCD(x.d, y.d)) * y.d
    IN  Norm(x.n * Pow(2, x.p2 - m2) * Pow(5, x.p5 - m5) * (l \div x.d)
               + y.n * Pow(2, y.p2 - m2) * Pow(5, y.p5 - m5) * (l \div y.d),
             l, m2, m5)

RSub(x, y) == RAdd(x, [y EXCEPT !.n = 0 - y.n])

RLess(x, y) == RSub(x, y).n < 0

\* Python's round(x, 2): to the nearest hundredth, ties to the even hundredth.
Round2(x) ==
    LET k2 == x.p2 + 2
        k5 == x.p5 + 2
        nn == x.n * Pow(2, k2) * Pow(5, k5)
        dd == x.d * Pow(2, 0 - k2) * Pow(5, 0 - k5)
        q  == nn \div dd
        r  == nn % dd
        hh == IF 2 * r > dd THEN q + 1
              ELSE IF 2 * r < dd THEN q
              ELSE IF q % 2 = 0 THEN q ELSE q + 1
    IN  Norm(hh, 1, -2, -2)

\* Python's sum(list): 0 + x1 + x2 + ...
RECURSIVE SumSeq(_)
SumSeq(s) == IF s = <<>> THEN Zero ELSE RAdd(SumSeq(SubSeq(s, 1, Len(s) - 1)), s[Len(s)])

\* ------------------------------------------------------------- crop_signal
\* np.abs(data)
AbsSeq(data) == [k \in 1..Len(data) |-> Abs(data[k])]

\* amp.max() of a non-empty array
RECURSIVE MaxSeq(_)
MaxSeq(s) ==
    IF Len(s) = 1 THEN s[1]
    ELSE LET m == MaxSeq(SubSeq(s, 1, Len(s) - 1))
         IN  IF s[Len(s)] > m THEN s[Len(s)] ELSE m

\* np.where(amp > thresh)[0], as the set of (1-based) indices
AboveIdx(amp, thresh) == {k \in 1..Len(amp) : RLess(thresh, Num(amp[k]))}

SetMin(S) == CHOOSE x \in S : \A y \in S : x <= y

SetMax(S) == CHOOSE x \in S : \A y \in S : y <= x

\* A Python slice s[lo:hi+1] for 1-based lo..hi inside the sequence.
Slice(s, lo, hi) == SubSeq(s, lo, hi)

\* crop_signal with the threshold test amp >= thresh
crop_signal_ge(time, data, frac) ==
    IF Len(data) = 0
    THEN [err |-> "ValueError", time |-> <<>>, data |-> <<>>]
    ELSE LET amp    == AbsSeq(data)
             thresh == RMul(frac, Num(MaxSeq(amp)))
             idx    == {k \in 1..Len(amp) : ~RLess(Num(amp[k]), thresh)}
         IN  IF idx = {}
             THEN [err |-> "IndexError", time |-> <<>>, data |-> <<>>]
             ELSE [err  |-> "none",
                   time |-> Slice(time, SetMin(idx), SetMax(idx)),
                   data |-> Slice(data, SetMin(idx), SetMax(idx))]

\* crop_signal(time, data, frac): the returned pair, or the exception raised.
crop_signal(time, data, frac) ==
    IF Len(data) = 0
    THEN [err |-> "ValueError", time |-> <<>>, data |-> <<>>]
    ELSE LET amp    == AbsSeq(data)
             thresh == RMul(frac, Num(MaxSeq(amp)))
             idx    == AboveIdx(amp, thresh)
         IN  IF idx = {}
             THEN [err |-> "IndexError", time |-> <<>>, data |-> <<>>]
             ELSE [err  |-> "none",
                   time |-> Slice(time, SetMin(idx), SetMax(idx)),
                   data |-> Slice(data, SetMin(idx), SetMax(idx))]

\* ---------------------------------------------------------- find_crossings
\* The loop of find_crossings after its iterations i = 1 .. upto-1 (0-based),
\* that is 1-based positions 2 .. upto.
RECURSIVE CrossingsUpTo(_, _, _)
CrossingsUpTo(time, data, upto) ==
    IF upto < 2 THEN <<>>
    ELSE LET xs == CrossingsUpTo(time, data, upto - 1)
         IN  IF data[upto - 1] * data[upto] < 0
             THEN Append(xs, time[upto])
             ELSE xs

\* find_crossings with the loop stopping one sample early
find_crossings_early(time, data) == CrossingsUpTo(time, data, Len(data) - 1)

find_crossings(time, data) == CrossingsUpTo(time, data, Len(data))

\* ---------------------------------------------------------- calc_frequency
\* calc_frequency with cycles = n_cross/2
calc_frequency_half(n_cross, t_period) ==
    LET cycles == IF n_cross > 1 THEN Rat(n_cross, 2) ELSE Zero
    IN  IF t_period > 0 THEN RDiv(cycles, Num(t_period)) ELSE Zero

calc_frequency(n_cross, t_period) ==
    LET cycles == IF n_cross > 1 THEN Rat(n_cross - 1, 2) ELSE Zero
    IN  IF t_period > 0 THEN RDiv(cycles, Num(t_period)) ELSE Zero

\* ----------------------------------------------------- calc_youngs_modulus
\* The cantilever eigenvalue factor 0.56
CantileverFactor == Rat(14, 25)

PaPerGPa == 1000000000

MmPerM == 1000

RSquare(x) == RMul(x, x)

RPow4(x) == RSquare(RSquare(x))

\* I_moment = lambda b,h: (b*h**3)/12
I_moment(wb, wh) == RDiv(RMul(wb, RMul(wh, RSquare(wh))), Num(12))

calc_youngs_modulus(f, wb, wh, wrho, I, L) ==
    LET q == RMul(RMul(wrho, wb), wh)
        E == RDiv(RMul(RMul(RSquare(RDiv(f, CantileverFactor)), q), RPow4(L)), I)
    IN  RDiv(E, Num(PaPerGPa))

\* ---------------------------------------------------------------- low_pass
\* Wn = cutoff/nyq with nyq = 0.5*fs; "ZeroDivisionError" when nyq = 0,
\* "ValueError" when butter rejects a critical frequency outside 0 < Wn < 1.
low_pass_error(wcutoff, wfs) ==
    LET nyq == RMul(Rat(1, 2), Num(wfs))
    IN  IF nyq = Zero THEN "ZeroDivisionError"
        ELSE LET Wn == RDiv(Num(wcutoff), nyq)
             IN  IF RLess(Zero, Wn) /\ RLess(Wn, Num(1)) THEN "none" ELSE "ValueError"

\* Sample values a filtered trace takes in the model.
FiltLevels == {-1, 0, 1}

\* The traces filtfilt(b, a, data) can return: as long as its input; a linear
\* filter maps the zero signal to the zero signal; any other output is a value
\* of the library's arithmetic, which the model does not compute.
low_pass_outputs(data) ==
    IF \A k \in 1..Len(data) : data[k] = Zero
    THEN {[k \in 1..Len(data) |-> 0]}
    ELSE [1..Len(data) -> FiltLevels]

\* ------------------------------------------------------------------- inputs
\* Quantisation levels a file holds.
RawLevels == {0, 1}

\* read_csv(fname): the (time, qlvl) columns of a file, sampled on a uniform
\* grid; a sample stands for a stretch long enough for filtfilt's edge padding.
Traces ==
    UNION {{[time |-> [k \in 1..N |-> k], qlvl |-> q] : q \in [1..N -> RawLevels]} :
           N \in 1..MaxTraceLen}

LengthLists == {<<1000>>, <<500, 1000>>, <<1000, 1000>>}

TrialCounts == {1, 2}

\* (cutoff, fs): valid, cutoff at Nyquist, zero rate, negative rate
FilterSettings == {<<1, 4>>, <<2, 4>>, <<1, 0>>, <<1, -4>>}

\* crop fractions: two in (0,1], two outside
Fractions == {Rat(1, 2), Num(1), Zero, Rat(3, 2)}

Widths == {Rat(2, 100)}

Thicknesses == {Rat(1, 1000)}

Densities == {Num(7840)}

\* -------------------------------------------------------------------- state
VARIABLES
    \* main: the settings read by prompt()
    lengths, trials, cutoff, fs, frac, b, h, rho,
    \* main: the worksheet rows and the two modulus lists
    ws, all_E, this_length_E,
    \* main: the position in the nested loops (L = lengths[li]) and in the body
    li, t, pc, err,
    \* main: the locals of one trial
    time, qlvl, centered, filt, ctime, cdata,
    crossings, n_cross, t_period, freq, Evalue,
    \* main: the two averages
    avg_E, overall,
    \* history: what became of each (occurrence of a length, trial) pair
    hist,
    \* one call of crop_signal (and of crop_signal on its result),
    \* of find_crossings, of calc_frequency
    cropCall, crossCall, freqCall

settings == <<lengths, trials, cutoff, fs, frac, b, h, rho>>

locals == <<time, qlvl, centered, filt, ctime, cdata,
            crossings, n_cross, t_period, freq, Evalue>>

calls == <<cropCall, crossCall, freqCall>>

vars == <<settings, ws, all_E, this_length_E, li, t, pc, err, locals,
          avg_E, overall, hist, calls>>

\* ws.append([...]): a row, with the occurrence of the length it belongs to
\* (occ) kept beside it; a blank cell is 0.
Row(kind, occ, L, trial, f, E) ==
    [kind |-> kind, occ |-> occ, L |-> L, t |-> trial, f |-> f, E |-> E]

HeaderRow == Row("header", 0, 0, 0, Zero, Zero)

Slots == {<<i, k>> : i \in 1..Len(lengths), k \in 1..trials}

Pending == [st |-> "pending", f |-> Zero, E |-> Zero]

NoCall == [pc |-> "idle"]

LocalsUnset ==
    /\ time = <<>> /\ qlvl = <<>> /\ centered = <<>> /\ filt = <<>>
    /\ ctime = <<>> /\ cdata = <<>> /\ crossings = <<>>
    /\ n_cross = 0 /\ t_period = 0 /\ freq = Zero /\ Evalue = Zero

ClearLocals ==
    /\ time' = <<>> /\ qlvl' = <<>> /\ centered' = <<>> /\ filt' = <<>>
    /\ ctime' = <<>> /\ cdata' = <<>> /\ crossings' = <<>>
    /\ n_cross' = 0 /\ t_period' = 0 /\ freq' = Zero /\ Evalue' = Zero

\* main up to the first iteration of the outer loop
InitMain ==
    /\ lengths \in LengthLists
    /\ trials \in TrialCounts
    /\ \E fset \in FilterSettings : cutoff = fset[1] /\ fs = fset[2]
    /\ frac \in Fractions
    /\ b \in Widths /\ h \in Thicknesses /\ rho \in Densities
    /\ ws = <<HeaderRow>>
    /\ all_E = <<>> /\ this_length_E = <<>>
    /\ li = 1 /\ t = 1 /\ pc = "length" /\ err = "none"
    /\ LocalsUnset
    /\ avg_E = Zero /\ overall = Zero
    /\ hist = [s \in Slots |-> Pending]

Init == InitMain /\ cropCall = NoCall /\ crossCall = NoCall /\ freqCall = NoCall

\* An exception leaves main: nothing after it runs.
Raise(e) ==
    /\ pc' = "aborted" /\ err' = e
    /\ UNCHANGED <<settings, ws, all_E, this_length_E, li, t, locals,
                   avg_E, overall, hist, calls>>

\* for L in lengths: this_length_E = []
BeginLength ==
    /\ pc = "length" /\ li <= Len(lengths)
    /\ this_length_E' = <<>> /\ t' = 1 /\ pc' = "trial"
    /\ UNCHANGED <<settings, ws, all_E, li, err, locals, avg_E, overall, hist, calls>>

\* if not fname.exists(): print(...); continue
MissingFile ==
    /\ pc = "trial" /\ t <= trials
    /\ hist' = [hist EXCEPT ![<<li, t>>].st = "skipped"]
    /\ t' = t + 1
    /\ UNCHANGED <<settings, ws, all_E, this_length_E, li, pc, err, locals,
                   avg_E, overall, calls>>

\* time, qlvl = read_csv(fname)
Load ==
    /\ pc = "trial" /\ t <= trials
    /\ \E tr \in Traces : time' = tr.time /\ qlvl' = tr.qlvl
    /\ hist' = [hist EXCEPT ![<<li, t>>].st = "loaded"]
    /\ pc' = "loaded"
    /\ UNCHANGED <<settings, ws, all_E, this_length_E, li, t, err,
                   centered, filt, ctime, cdata, crossings, n_cross, t_period,
                   freq, Evalue, avg_E, overall, calls>>

RECURSIVE SumInts(_)
SumInts(s) == IF s = <<>> THEN 0 ELSE SumInts(SubSeq(s, 1, Len(s) - 1)) + s[Len(s)]

\* qlvl.mean()
Mean(q) == RDiv(Num(SumInts(q)), Num(Len(q)))

\* centered = qlvl - qlvl.mean()
Center ==
    /\ pc = "loaded"
    /\ centered' = [k \in 1..Len(qlvl) |-> RSub(Num(qlvl[k]), Mean(qlvl))]
    /\ pc' = "centered"
    /\ UNCHANGED <<settings, ws, all_E, this_length_E, li, t, err,
                   time, qlvl, filt, ctime, cdata, crossings, n_cross, t_period,
                   freq, Evalue, avg_E, overall, hist, calls>>

\* filt = low_pass(centered, cutoff, fs, order); qlvl and centered are not
\* read again and are cleared
Filter ==
    /\ pc = "centered"
    /\ IF low_pass_error(cutoff, fs) # "none"
       THEN Raise(low_pass_error(cutoff, fs))
       ELSE /\ filt' \in low_pass_outputs(centered)
            /\ qlvl' = <<>> /\ centered' = <<>>
            /\ pc' = "filtered"
            /\ UNCHANGED <<settings, ws, all_E, this_length_E, li, t, err,
                           time, ctime, cdata, crossings, n_cross, t_period,
                           freq, Evalue, avg_E, overall, hist, calls>>

\* ctime, cdata = crop_signal(time, filt, frac)
Crop ==
    /\ pc = "filtered"
    /\ LET r == crop_signal(time, filt, frac)
       IN  IF r.err # "none"
           THEN Raise(r.err)
           ELSE /\ ctime' = r.time /\ cdata' = r.data
                /\ pc' = "cropped"
                /\ UNCHANGED <<settings, ws, all_E, this_length_E, li, t, err,
                               time, qlvl, centered, filt, crossings, n_cross,
                               t_period, freq, Evalue, avg_E, overall, hist, calls>>

\* t_period = crossings[-1]-crossings[0] if n_cross>1 else 0
Period(xs) == IF Len(xs) > 1 THEN xs[Len(xs)] - xs[1] ELSE 0

\* crossings ... all_E.append(Evalue)
Analyze ==
    /\ pc = "cropped"
    /\ crossings' = find_crossings(ctime, cdata)
    /\ n_cross' = Len(crossings')
    /\ t_period' = Period(crossings')
    /\ freq' = calc_frequency(n_cross', t_period')
    /\ Evalue' = calc_youngs_modulus(freq', b, h, rho, I_moment(b, h),
                                     RDiv(Num(lengths[li]), Num(MmPerM)))
    /\ this_length_E' = Append(this_length_E, Evalue')
    /\ all_E' = Append(all_E, Evalue')
    /\ hist' = [hist EXCEPT ![<<li, t>>] = [st |-> "analyzed", f |-> freq', E |-> Evalue']]
    /\ pc' = "analyzed"
    /\ UNCHANGED <<settings, ws, li, t, err, time, qlvl, centered, filt, ctime,
                   cdata, avg_E, overall, calls>>

\* ws.append([L, t, round(freq,2), round(Evalue,2)]); the next iteration
\* assigns every local before reading it, so they are cleared here
Record ==
    /\ pc = "analyzed"
    /\ ws' = Append(ws, Row("trial", li, lengths[li], t, Round2(freq), Round2(Evalue)))
    /\ hist' = [hist EXCEPT ![<<li, t>>].st = "recorded"]
    /\ t' = t + 1 /\ pc' = "trial"
    /\ ClearLocals
    /\ UNCHANGED <<settings, all_E, this_length_E, li, err, avg_E, overall, calls>>

\* LengthAverage with the sum divided by the number of trials asked for
LengthAverageOverTrials ==
    /\ pc = "trial" /\ t > trials
    /\ IF this_length_E # <<>>
       THEN /\ avg_E' = RDiv(SumSeq(this_length_E), Num(trials))
            /\ ws' = Append(ws, Row("avg", li, lengths[li], 0, Zero, Round2(avg_E')))
       ELSE UNCHANGED <<avg_E, ws>>
    /\ li' = li + 1 /\ pc' = "length"
    /\ UNCHANGED <<settings, all_E, this_length_E, t, err, locals, overall, hist, calls>>

\* if this_length_E: avg_E = sum(...)/len(...); ws.append([L, "avg", "", round(avg_E,2)])
LengthAverage ==
    /\ pc = "trial" /\ t > trials
    /\ IF this_length_E # <<>>
       THEN /\ avg_E' = RDiv(SumSeq(this_length_E), Num(Len(this_length_E)))
            /\ ws' = Append(ws, Row("avg", li, lengths[li], 0, Zero, Round2(avg_E')))
       ELSE UNCHANGED <<avg_E, ws>>
    /\ li' = li + 1 /\ pc' = "length"
    /\ UNCHANGED <<settings, all_E, this_length_E, t, err, locals, overall, hist, calls>>

\* if all_E: overall = sum(all_E)/len(all_E); ws.append(["overall", "", "", round(overall,2)])
OverallAverage ==
    /\ pc = "length" /\ li > Len(lengths)
    /\ IF all_E # <<>>
       THEN /\ overall' = RDiv(SumSeq(all_E), Num(Len(all_E)))
            /\ ws' = Append(ws, Row("overall", 0, 0, 0, Zero, Round2(overall')))
       ELSE UNCHANGED <<overall, ws>>
    /\ pc' = "done"
    /\ UNCHANGED <<settings, all_E, this_length_E, li, t, err, locals, avg_E, hist, calls>>

Next ==
    \/ BeginLength
    \/ MissingFile
    \/ Load
    \/ Center
    \/ Filter
    \/ Crop
    \/ Analyze
    \/ Record
    \/ LengthAverage
    \/ OverallAverage

Spec == Init /\ [][Next]_vars

\* ------------------------------------------------- the functions on their own
\* main before its first loop iteration, with the default-like settings
MainIdle ==
    /\ lengths = <<1000>> /\ trials = 1 /\ cutoff = 1 /\ fs = 4
    /\ frac = Rat(1, 10)
    /\ b \in Widths /\ h \in Thicknesses /\ rho \in Densities
    /\ ws = <<HeaderRow>>
    /\ all_E = <<>> /\ this_length_E = <<>>
    /\ li = 1 /\ t = 1 /\ pc = "length" /\ err = "none"
    /\ LocalsUnset
    /\ avg_E = Zero /\ overall = Zero
    /\ hist = [s \in Slots |-> Pending]

main_vars == <<settings, ws, all_E, this_length_E, li, t, pc, err, locals,
               avg_E, overall, hist>>

Unset == [err |-> "unset", time |-> <<>>, data |-> <<>>]

\* the default of crop_signal, and the fractions main is run with
CropFractions == Fractions \cup {Rat(1, 10)}

\* a signal of up to MaxLen samples on the uniform time grid, and a fraction
InitCrop ==
    /\ MainIdle
    /\ \E N \in 0..MaxLen :
          \E d \in [1..N -> (0 - MaxAmp)..MaxAmp], fr \in CropFractions :
             cropCall = [pc |-> "ready", time |-> [k \in 1..N |-> k], data |-> d,
                         frac |-> fr, out |-> Unset, out2 |-> Unset]
    /\ crossCall = NoCall /\ freqCall = NoCall

\* out = crop_signal(time, data, frac)
CropOnce ==
    /\ cropCall.pc = "ready"
    /\ cropCall' = [cropCall EXCEPT
                      !.out = crop_signal(cropCall.time, cropCall.data, cropCall.frac),
                      !.pc = "once"]
    /\ UNCHANGED <<main_vars, crossCall, freqCall>>

\* out2 = crop_signal(*out, frac), when the first call returned
CropTwice ==
    /\ cropCall.pc = "once" /\ cropCall.out.err = "none"
    /\ cropCall' = [cropCall EXCEPT
                      !.out2 = crop_signal(cropCall.out.time, cropCall.out.data,
                                           cropCall.frac),
                      !.pc = "twice"]
    /\ UNCHANGED <<main_vars, crossCall, freqCall>>

NextCrop == CropOnce \/ CropTwice

SpecCrop == InitCrop /\ [][NextCrop]_vars

\* time columns: the uniform grid, and any sequence over two values
\* (repeated and decreasing times)
TimeSeqs(N) == {[k \in 1..N |-> k]} \cup [1..N -> {1, 2}]

\* a (time, signal) pair of equal lengths up to MaxLen
InitCross ==
    /\ MainIdle
    /\ \E N \in 0..MaxLen :
          \E tm \in TimeSeqs(N), d \in [1..N -> FiltLevels] :
             crossCall = [pc |-> "ready", time |-> tm, data |-> d, out |-> <<>>]
    /\ cropCall = NoCall /\ freqCall = NoCall

\* out = find_crossings(time, data)
CrossApply ==
    /\ crossCall.pc = "ready"
    /\ crossCall' = [crossCall EXCEPT
                       !.out = find_crossings(crossCall.time, crossCall.data),
                       !.pc = "done"]
    /\ UNCHANGED <<main_vars, cropCall, freqCall>>

NextCross == CrossApply

SpecCross == InitCross /\ [][NextCross]_vars

\* crossing lists of main: up to three times, in any order
CrossingLists == UNION {[1..N -> 1..MaxPeriod] : N \in 0..3}

FreqInputs ==
    {[pc |-> "ready", xs |-> <<>>, n |-> n, p |-> p, out |-> Zero] :
        n \in 0..MaxCross, p \in (0 - MaxPeriod)..MaxPeriod}

FreqInputsMain ==
    {[pc |-> "crossings", xs |-> xs, n |-> 0, p |-> 0, out |-> Zero] :
        xs \in CrossingLists}

InitFreq ==
    /\ MainIdle
    /\ freqCall \in FreqInputs \cup FreqInputsMain
    /\ cropCall = NoCall /\ crossCall = NoCall

\* out = calc_frequency(n, p)
FreqApply ==
    /\ freqCall.pc = "ready"
    /\ freqCall' = [freqCall EXCEPT
                      !.out = calc_frequency(freqCall.n, freqCall.p),
                      !.pc = "done"]
    /\ UNCHANGED <<main_vars, cropCall, crossCall>>

\* n_cross = len(crossings); t_period = ...; freq = calc_frequency(n_cross, t_period)
FreqOfCrossings ==
    /\ freqCall.pc = "crossings"
    /\ freqCall' = [freqCall EXCEPT
                      !.n = Len(freqCall.xs),
                      !.p = Period(freqCall.xs),
                      !.out = calc_frequency(Len(freqCall.xs), Period(freqCall.xs)),
                      !.pc = "main"]
    /\ UNCHANGED <<main_vars, cropCall, crossCall>>

NextFreq == FreqApply \/ FreqOfCrossings

SpecFreq == InitFreq /\ [][NextFreq]_vars

\* ------------------------------------------------------------------ claims
\* the largest magnitude of a non-empty signal
Peak(data) ==
    CHOOSE m \in {Abs(data[j]) : j \in 1..Len(data)} :
        \A j \in 1..Len(data) : Abs(data[j]) <= m

\* the indices whose sample strictly exceeds frac * max(|data|) in magnitude
Exceeding(data, fr) ==
    IF data = <<>> THEN {}
    ELSE LET thr == RMul(fr, Num(Peak(data)))
         IN  {k \in 1..Len(data) : RLess(thr, Num(Abs(data[k])))}

SomeExceeds(data, fr) == Exceeding(data, fr) # {}

\* s is the part lo..hi of full
IsRange(s, full, lo, hi) ==
    /\ Len(s) = hi - lo + 1
    /\ \A m \in 1..(hi - lo + 1) : s[m] = full[lo + m - 1]

\* C7: when some sample strictly exceeds frac * max(|signal|), crop_signal
\* returns time[i..j] and signal[i..j], i the first and j the last index whose
\* sample exceeds the threshold, endpoints included, samples in between kept,
\* both sequences cut at the same indices.
C7_CropRange ==
    LET c == cropCall
        X == Exceeding(c.data, c.frac)
    IN  (c.pc \in {"once", "twice"} /\ X # {}) =>
          /\ c.out.err = "none"
          /\ \E i, j \in X :
               /\ \A k \in X : i <= k /\ k <= j
               /\ IsRange(c.out.data, c.data, i, j)
               /\ IsRange(c.out.time, c.time, i, j)

\* a crop that drops the first sample and keeps a non-zero sample below the
\* threshold between two samples above it
C7_Witness ==
    LET c == cropCall
    IN  /\ c.pc = "once" /\ c.out.err = "none"
        /\ Len(c.out.data) >= 3 /\ Len(c.out.data) < Len(c.data)
        /\ c.out.time[1] = 2
        /\ \E k \in 2..(Len(c.data) - 1) :
              c.data[k] # 0 /\ k \notin Exceeding(c.data, c.frac) /\ c.out.data[k - 1] = c.data[k]

InUnitInterval(fr) == RLess(Zero, fr) /\ ~RLess(Num(1), fr)

\* C8: for every (time, signal) and every frac in (0,1], crop_signal applied
\* with the same frac to the output of crop_signal returns that output
\* unchanged.
C8_CropIdempotent ==
    LET c == cropCall
    IN  (c.pc \in {"once", "twice"} /\ InUnitInterval(c.frac)) =>
          /\ c.out.err = "none"
          /\ c.pc = "twice" =>
               (c.out2.err = "none" /\ c.out2.time = c.out.time /\ c.out2.data = c.out.data)

\* C6: find_crossings returns, in index order, exactly the times time[i] of the
\* later sample of each adjacent pair of strictly opposite signs; a pair with a
\* zero sample gives no crossing, fewer than 2 samples give none, and a
\* strictly increasing time gives a strictly increasing result.
SignChanges(data) ==
    {i \in 2..Len(data) : \/ (data[i - 1] < 0 /\ data[i] > 0)
                          \/ (data[i - 1] > 0 /\ data[i] < 0)}

\* the k-th smallest element of S
Kth(S, k) == CHOOSE i \in S : Cardinality({j \in S : j < i}) = k - 1

Increasing(s) == \A i, j \in 1..Len(s) : i < j => s[i] < s[j]

C6_Crossings ==
    LET c == crossCall
    IN  c.pc = "done" =>
          /\ Len(c.out) = Cardinality(SignChanges(c.data))
          /\ \A k \in 1..Len(c.out) : c.out[k] = c.time[Kth(SignChanges(c.data), k)]
          /\ Len(c.data) < 2 => c.out = <<>>
          /\ Increasing(c.time) => Increasing(c.out)

\* two crossings around a zero sample that gives none
C6_Witness ==
    LET c == crossCall
    IN  /\ c.pc = "done" /\ Len(c.out) = 2 /\ Len(c.data) = 4
        /\ \E k \in 1..4 : c.data[k] = 0
        /\ Increasing(c.time)

\* C9: calc_frequency(n, p) is ((n-1)/2)/p when n > 1 and p > 0 and 0
\* otherwise, never negative; in main p is the last crossing time minus the
\* first when n > 1 and 0 otherwise, so fewer than 2 crossings give 0.
C9_Frequency ==
    LET c == freqCall
    IN  /\ c.pc \in {"done", "main"} =>
             /\ (c.n > 1 /\ c.p > 0) => RMul(c.out, Num(2 * c.p)) = Num(c.n - 1)
             /\ (c.n <= 1 \/ c.p <= 0) => c.out = Zero
             /\ ~RLess(c.out, Zero)
        /\ c.pc = "main" =>
             /\ c.n = Len(c.xs)
             /\ c.n > 1 => c.p = c.xs[c.n] - c.xs[1]
             /\ c.n <= 1 => (c.p = 0 /\ c.out = Zero)

\* three crossings over a period of 3: one cycle in 3
C9_Witness ==
    /\ freqCall.pc = "main" /\ freqCall.n = 3 /\ freqCall.p = 3
    /\ freqCall.out = Rat(1, 3)

\* ----------------------------------------------------------- claims on main
\* the settings the specification calls valid
ValidSettings == 2 * cutoff < fs /\ fs > 0 /\ InUnitInterval(frac)

\* the trial's modulus has been appended to the two lists
Appended(s) == hist[s].st \in {"analyzed", "recorded"}

OccSlots(i) == {s \in Slots : s[1] = i}

RowsOf(kind) == {k \in 1..Len(ws) : ws[k].kind = kind}

AvgRows(i) == {k \in RowsOf("avg") : ws[k].occ = i}

RECURSIVE SumE(_)
SumE(S) ==
    IF S = {} THEN Zero
    ELSE LET s == CHOOSE x \in S : TRUE IN RAdd(hist[s].E, SumE(S \ {s}))

MeanE(S) == RDiv(SumE(S), Num(Cardinality(S)))

Terminated == pc \in {"done", "aborted"}

\* C1: when no sample of the filtered trace strictly exceeds frac * max, the
\* crop returns a zero-length pair and the trial is not aborted: it produces a
\* result with frequency 0.
C1_EmptyCropContinues ==
    (/\ ValidSettings
     /\ pc \in {"cropped", "analyzed", "aborted"}
     /\ filt # <<>> /\ ~SomeExceeds(filt, frac)) =>
        /\ pc # "aborted"
        /\ ctime = <<>> /\ cdata = <<>>
        /\ pc = "analyzed" => freq = Zero

\* C2: every pair whose file exists ends Recorded (modulus in both lists, row
\* emitted) whatever the trace; a pair whose file is missing is Skipped with no
\* value and no row; the remaining pairs are still processed.
C2_EveryTrialSettled ==
    /\ (ValidSettings /\ Terminated) =>
          \A s \in Slots : hist[s].st \in {"skipped", "recorded"}
    /\ \A s \in Slots :
          /\ hist[s].st = "recorded" =>
                \E k \in RowsOf("trial") : ws[k].occ = s[1] /\ ws[k].t = s[2]
          /\ hist[s].st = "skipped" =>
                ~\E k \in RowsOf("trial") : ws[k].occ = s[1] /\ ws[k].t = s[2]
    /\ Len(all_E) = Cardinality({s \in Slots : Appended(s)})

\* C3: with cutoff >= fs/2, fs <= 0 or frac outside (0,1] the run aborts
\* before any trial is processed: no trial loaded, no value appended, no row
\* emitted, and the run does not complete as if the settings were valid.
C3_InvalidSettingsAbort ==
    ~ValidSettings =>
        /\ \A s \in Slots : hist[s].st \in {"pending", "skipped"}
        /\ all_E = <<>> /\ this_length_E = <<>>
        /\ ws = <<HeaderRow>>
        /\ pc # "done"

\* C4: every emitted length average is the unweighted mean of the moduli of
\* exactly the non-skipped trials of that occurrence of the length, and the
\* emitted overall average the unweighted mean over all non-skipped trials
\* (avg_E and overall exactly; the rows to 2 decimals).
C4_Averages ==
    /\ \A k \in RowsOf("avg") :
          LET S == {s \in OccSlots(ws[k].occ) : hist[s].st # "skipped"}
          IN  /\ \A s \in S : hist[s].st = "recorded"
              /\ S # {}
              /\ ws[k].L = lengths[ws[k].occ]
              /\ ws[k].E = Round2(MeanE(S))
    /\ (pc = "length" /\ li > 1 /\ AvgRows(li - 1) # {}) =>
          avg_E = MeanE({s \in OccSlots(li - 1) : hist[s].st # "skipped"})
    /\ \A k \in RowsOf("overall") :
          LET S == {s \in Slots : hist[s].st # "skipped"}
          IN  /\ \A s \in S : hist[s].st = "recorded"
              /\ S # {}
              /\ overall = MeanE(S)
              /\ ws[k].E = Round2(overall)

\* a finished run with a length of one skipped and one recorded trial, trials
\* of different moduli, and an overall average that is not a round number
C4_Witness ==
    /\ pc = "done" /\ RowsOf("overall") # {}
    /\ \E i \in 1..Len(lengths) :
          /\ AvgRows(i) # {}
          /\ \E s1, s2 \in OccSlots(i) :
                hist[s1].st = "skipped" /\ hist[s2].st = "recorded"
    /\ \E s1, s2 \in Slots :
          /\ hist[s1].st = "recorded" /\ hist[s2].st = "recorded"
          /\ hist[s1].E # hist[s2].E /\ hist[s1].E # Zero /\ hist[s2].E # Zero
    /\ overall # Round2(overall)

\* C5: a trial of frequency 0 is left out of the length average of its length
\* and of the overall average.
C5_ZeroFrequencyLeftOut ==
    /\ \A k \in RowsOf("avg") :
          LET S == {s \in OccSlots(ws[k].occ) : Appended(s) /\ hist[s].f # Zero}
          IN  S # {} /\ ws[k].E = Round2(MeanE(S))
    /\ \A k \in RowsOf("overall") :
          LET S == {s \in Slots : Appended(s) /\ hist[s].f # Zero}
          IN  S # {} /\ ws[k].E = Round2(MeanE(S))

\* C10: a length average row is emitted for an occurrence of a length iff one
\* of its trials was recorded, at most once and only after all its trials; an
\* overall row iff some trial was recorded, once and after all lengths.
C10_AverageRows ==
    /\ \A i \in 1..Len(lengths) :
          /\ Cardinality(AvgRows(i)) <= 1
          /\ AvgRows(i) # {} =>
                (li > i /\ \E s \in OccSlots(i) : hist[s].st = "recorded")
    /\ Cardinality(RowsOf("overall")) <= 1
    /\ RowsOf("overall") # {} =>
          (pc = "done" /\ \E s \in Slots : hist[s].st = "recorded")
    /\ (ValidSettings /\ Terminated) =>
          /\ \A i \in 1..Len(lengths) :
                (\E s \in OccSlots(i) : hist[s].st = "recorded") => AvgRows(i) # {}
          /\ (\E s \in Slots : hist[s].st = "recorded") => RowsOf("overall") # {}

====
